---- MODULE Spec2Model ----
(***************************************************************************)
(* The conversation store of the chat client (contexts/ChatContext.tsx),   *)
(* the view that drives it (components/ChatInterface.tsx, ChatInput.tsx,   *)
(* ChatSidebar.tsx, ChatMessage.tsx) and the mount of the provider         *)
(* (App.tsx).                                                              *)
(*                                                                         *)
(* A text is a sequence of atoms.  The atom " " is the space character,    *)
(* the only thing String.split(' ') looks at; every other atom is a piece  *)
(* of text without a space.  The three fixed assistant texts are kept as   *)
(* one atom each: they are never split.                                    *)
(*                                                                         *)
(* Ids are `chat_${Date.now()}_${random}` and `msg_${Date.now()}_${random}`*)
(* in the code; the model draws them from two counters, so an id is the    *)
(* number of the creation.  0 stands for null.                             *)
(***************************************************************************)
EXTENDS Integers, Sequences, FiniteSets, TLC

VARIABLES
    state,                      \* ChatState of the useReducer in ChatProvider
    storage,                    \* localStorage item 'chatgpt-clone-chats'
    currentStreamingMessageId,  \* useState of ChatInterface
    abortControllerRef,         \* useRef of ChatInterface: the request whose controller it holds
    requests,                   \* streamText calls that have neither returned nor thrown
    pending,                    \* handleSendMessage calls waiting in their 100 ms timer
    nextChatId,                 \* chat ids handed out so far
    nextMsgId,                  \* message ids handed out so far
    now,                        \* Date.now()
    hist                        \* history of the session (used by the scenarios only)

vars == <<state, storage, currentStreamingMessageId, abortControllerRef,
          requests, pending, nextChatId, nextMsgId, now, hist>>

----------------------------------------------------------------------------
(* Bounds of the model *)

MaxChats == 2
MaxMsgs == 4
MaxChunks == 1
MaxClock == 1

----------------------------------------------------------------------------
(* Values *)

NoChat == 0
NoMsg == 0
Undefined == <<>>
Some(v) == <<v>>

SP == " "
NewChatTitle == <<"New", SP, "Chat">>
Ellipsis == <<"...">>
TitleWords == 6

StoppedText == <<"Response generation was stopped.">>
MedicalRefusalText == <<"I understand you've uploaded what appears to be a medical image. [...]">>
GenericErrorText == <<"Sorry, I encountered an error while analyzing this image. [...]">>
ErrorKinds == {"medical", "other"}

Chunks == {"x"}

TextSix == <<"Explain", SP, "recursion", SP, "in", SP, "six", SP, "words", SP, "please">>
TextSeven == <<"Tell", SP, "me", SP, "what", SP, "this", SP, "picture", SP, "is", SP, "about">>
NoImages == <<>>
OneImage == <<"url1">>

\* what handleSubmit can pass to onSendMessage: message.trim() and the image urls
SendInputs ==
    { [content |-> TextSix, images |-> NoImages],
      [content |-> TextSeven, images |-> OneImage] }

Min(a, b) == IF a < b THEN a ELSE b

----------------------------------------------------------------------------
(* generateChatTitle *)

HasSpace(s) == \E i \in 1..Len(s) : s[i] = SP
FirstSpace(s) == CHOOSE i \in 1..Len(s) : s[i] = SP /\ \A j \in 1..(i-1) : s[j] # SP

RECURSIVE Split(_)
Split(s) ==
    IF ~HasSpace(s) THEN <<s>>
    ELSE <<SubSeq(s, 1, FirstSpace(s) - 1)>> \o Split(SubSeq(s, FirstSpace(s) + 1, Len(s)))

Slice(ws, n) == SubSeq(ws, 1, Min(n, Len(ws)))

RECURSIVE Join(_)
Join(ws) ==
    IF Len(ws) = 0 THEN <<>>
    ELSE IF Len(ws) = 1 THEN ws[1]
    ELSE ws[1] \o <<SP>> \o Join(Tail(ws))

generateChatTitle(firstMessage) ==
    Join(Slice(Split(firstMessage), TitleWords))
        \o (IF Len(Split(firstMessage)) > TitleWords THEN Ellipsis ELSE <<>>)

----------------------------------------------------------------------------
(* Persistence: JSON.stringify / JSON.parse of the conversation list.      *)
(* A JSON object is a function from the keys that are present; stringify   *)
(* drops the keys whose value is undefined, and reading a key that is not  *)
(* there gives undefined.                                                  *)

MessageKeys(m) ==
    {"id", "content", "role", "timestamp"}
        \cup (IF m.images # Undefined THEN {"images"} ELSE {})
        \cup (IF m.isStreaming # Undefined THEN {"isStreaming"} ELSE {})

MessageToJson(m) ==
    [k \in MessageKeys(m) |->
        CASE k = "id" -> m.id
          [] k = "content" -> m.content
          [] k = "role" -> m.role
          [] k = "timestamp" -> m.timestamp
          [] k = "images" -> m.images
          [] k = "isStreaming" -> m.isStreaming[1]]

MessageFromJson(j) ==
    [id |-> j["id"], content |-> j["content"], role |-> j["role"],
     timestamp |-> j["timestamp"],
     images |-> IF "images" \in DOMAIN j THEN j["images"] ELSE Undefined,
     isStreaming |-> IF "isStreaming" \in DOMAIN j THEN Some(j["isStreaming"]) ELSE Undefined]

ChatToJson(c) ==
    [id |-> c.id, title |-> c.title,
     messages |-> [i \in 1..Len(c.messages) |-> MessageToJson(c.messages[i])],
     createdAt |-> c.createdAt, updatedAt |-> c.updatedAt]

ChatFromJson(j) ==
    [id |-> j.id, title |-> j.title,
     messages |-> [i \in 1..Len(j.messages) |-> MessageFromJson(j.messages[i])],
     createdAt |-> j.createdAt, updatedAt |-> j.updatedAt]

NoDocument == [kind |-> "none", doc |-> <<>>]
CorruptDocument == [kind |-> "corrupt", doc |-> <<>>]

JSONstringify(chats) ==
    [kind |-> "json", doc |-> [i \in 1..Len(chats) |-> ChatToJson(chats[i])]]

\* JSON.parse giving the conversations in the reverse order
JSONparseReversed(item) ==
    [i \in 1..Len(item.doc) |-> ChatFromJson(item.doc[Len(item.doc) + 1 - i])]

JSONparse(item) == [i \in 1..Len(item.doc) |-> ChatFromJson(item.doc[i])]

----------------------------------------------------------------------------
(* chatReducer *)

\* CREATE_CHAT putting the new conversation at the end of the list
CreateChatCaseAtEnd(s, a) ==
    [s EXCEPT !.chats = s.chats \o <<a.payload>>,
              !.currentChatId = a.payload.id]

\* CREATE_CHAT leaving the active id as it is
CreateChatCaseNotActive(s, a) == [s EXCEPT !.chats = <<a.payload>> \o s.chats]

CreateChatCase(s, a) ==
    [s EXCEPT !.chats = <<a.payload>> \o s.chats,
              !.currentChatId = a.payload.id]

\* SELECT_CHAT falling back to the first conversation when the id is not in the list
SelectChatCaseIfPresent(s, a) ==
    IF \E i \in 1..Len(s.chats) : s.chats[i].id = a.payload
    THEN [s EXCEPT !.currentChatId = a.payload]
    ELSE [s EXCEPT !.currentChatId = IF Len(s.chats) > 0 THEN s.chats[1].id ELSE NoChat]

SelectChatCase(s, a) == [s EXCEPT !.currentChatId = a.payload]

\* ADD_MESSAGE putting the new message in front of the others
AddMessageCaseInFront(s, a) ==
    [s EXCEPT !.chats =
        [i \in 1..Len(s.chats) |->
            IF s.chats[i].id = s.currentChatId
            THEN [s.chats[i] EXCEPT !.messages = <<a.payload>> \o @,
                                    !.updatedAt = now]
            ELSE s.chats[i]]]

AddMessageCase(s, a) ==
    [s EXCEPT !.chats =
        [i \in 1..Len(s.chats) |->
            IF s.chats[i].id = s.currentChatId
            THEN [s.chats[i] EXCEPT !.messages = Append(@, a.payload),
                                    !.updatedAt = now]
            ELSE s.chats[i]]]

UpdateMessageCase(s, a) ==
    [s EXCEPT !.chats =
        [i \in 1..Len(s.chats) |->
            IF s.chats[i].id = s.currentChatId
            THEN [s.chats[i] EXCEPT
                    !.messages =
                        [k \in 1..Len(s.chats[i].messages) |->
                            IF s.chats[i].messages[k].id = a.payload.messageId
                            THEN [s.chats[i].messages[k] EXCEPT
                                    !.content = a.payload.content,
                                    !.isStreaming = Some(FALSE)]
                            ELSE s.chats[i].messages[k]],
                    !.updatedAt = now]
            ELSE s.chats[i]]]

\* DELETE_CHAT making the last remaining conversation the active one
DeleteChatCaseLastRemaining(s, a) ==
    LET remainingChats == SelectSeq(s.chats, LAMBDA chat : chat.id # a.payload)
    IN  [s EXCEPT !.chats = remainingChats,
                  !.currentChatId =
                      IF s.currentChatId = a.payload
                      THEN (IF Len(remainingChats) > 0
                            THEN remainingChats[Len(remainingChats)].id ELSE NoChat)
                      ELSE s.currentChatId]

DeleteChatCase(s, a) ==
    LET remainingChats == SelectSeq(s.chats, LAMBDA chat : chat.id # a.payload)
    IN  [s EXCEPT !.chats = remainingChats,
                  !.currentChatId =
                      IF s.currentChatId = a.payload
                      THEN (IF Len(remainingChats) > 0 THEN remainingChats[1].id ELSE NoChat)
                      ELSE s.currentChatId]

SetStreamingCase(s, a) == [s EXCEPT !.isStreaming = a.payload]

\* LOAD_CHATS leaving the loading flag as it is
LoadChatsCaseStillLoading(s, a) == [s EXCEPT !.chats = a.payload]

LoadChatsCase(s, a) == [s EXCEPT !.chats = a.payload, !.isLoading = FALSE]

chatReducer(s, a) ==
    CASE a.type = "CREATE_CHAT" -> CreateChatCase(s, a)
      [] a.type = "SELECT_CHAT" -> SelectChatCase(s, a)
      [] a.type = "ADD_MESSAGE" -> AddMessageCase(s, a)
      [] a.type = "UPDATE_MESSAGE" -> UpdateMessageCase(s, a)
      [] a.type = "DELETE_CHAT" -> DeleteChatCase(s, a)
      [] a.type = "SET_STREAMING" -> SetStreamingCase(s, a)
      [] a.type = "LOAD_CHATS" -> LoadChatsCase(s, a)
      [] OTHER -> s

\* the dispatches one handler queues, reduced in order on the state at hand
RECURSIVE Dispatch(_, _)
Dispatch(s, actions) ==
    IF actions = <<>> THEN s
    ELSE Dispatch(chatReducer(s, Head(actions)), Tail(actions))

InitialState ==
    [chats |-> <<>>, currentChatId |-> NoChat, isLoading |-> TRUE, isStreaming |-> FALSE]

----------------------------------------------------------------------------
(* ChatProvider *)

\* the save effect: runs after a render in which state.chats or state.isLoading changed
\* the save effect writing also while the store is loading
SaveEffectWhileLoading(s) == JSONstringify(s.chats)

SaveEffect(s) == IF ~s.isLoading THEN JSONstringify(s.chats) ELSE storage

NewChat(id) ==
    [id |-> id, title |-> NewChatTitle, messages |-> <<>>, createdAt |-> now, updatedAt |-> now]

\* createNewChat: the dispatch it queues
createNewChat(id) == <<[type |-> "CREATE_CHAT", payload |-> NewChat(id)]>>

selectChat(chatId) == <<[type |-> "SELECT_CHAT", payload |-> chatId]>>

deleteChat(chatId) == <<[type |-> "DELETE_CHAT", payload |-> chatId]>>

setStreaming(isStreaming) == <<[type |-> "SET_STREAMING", payload |-> isStreaming]>>

updateMessage(messageId, content) ==
    <<[type |-> "UPDATE_MESSAGE", payload |-> [messageId |-> messageId, content |-> content]]>>

\* state.chats.find(chat => chat.id === state.currentChatId): its index, 0 when there is none
FindCurrent(s) ==
    IF \E i \in 1..Len(s.chats) : s.chats[i].id = s.currentChatId
    THEN CHOOSE i \in 1..Len(s.chats) :
            /\ s.chats[i].id = s.currentChatId
            /\ \A j \in 1..(i-1) : s.chats[j].id # s.currentChatId
    ELSE 0

\* addMessage: the dispatches it queues.  closure is the state of the render the
\* calling handler was created in; message has content, role, images, isStreaming.
addMessage(closure, message, id) ==
    LET newMessage == [id |-> id, content |-> message.content, role |-> message.role,
                       timestamp |-> now, images |-> message.images,
                       isStreaming |-> message.isStreaming]
        cur == FindCurrent(closure)
        title == generateChatTitle(message.content)
        updatedChats == [i \in 1..Len(closure.chats) |->
                            IF closure.chats[i].id = closure.currentChatId
                            THEN [closure.chats[i] EXCEPT !.title = title]
                            ELSE closure.chats[i]]
    IN  <<[type |-> "ADD_MESSAGE", payload |-> newMessage]>>
        \o (IF message.role = "user" /\ cur # 0 /\ Len(closure.chats[cur].messages) = 0
            THEN <<[type |-> "LOAD_CHATS", payload |-> updatedChats]>>
            ELSE <<>>)

----------------------------------------------------------------------------
(* History of the session, kept for the scenarios: phase follows "the store *)
(* loaded zero conversations, then one send of at most six words, then its  *)
(* stream completed"; creates counts the conversations created in sequence  *)
(* since the store loaded zero conversations (-1: something else happened). *)

HistOff == [phase |-> "off", text |-> <<>>, streamed |-> <<>>, creates |-> 0 - 1]

HistLoad(chats) ==
    IF Len(chats) = 0
    THEN [phase |-> "fresh", text |-> <<>>, streamed |-> <<>>, creates |-> 0]
    ELSE HistOff

HistCreate(byEffect) ==
    [phase |-> IF byEffect /\ hist.phase = "fresh" THEN "fresh" ELSE "off",
     text |-> <<>>, streamed |-> <<>>,
     creates |-> IF hist.creates >= 0 THEN hist.creates + 1 ELSE hist.creates]

HistSubmit(content) ==
    IF hist.phase = "fresh" /\ Len(Split(content)) <= TitleWords
    THEN [phase |-> "sent", text |-> content, streamed |-> <<>>, creates |-> 0 - 1]
    ELSE HistOff

HistChunk == IF hist.phase = "sent" THEN hist ELSE HistOff

HistDone(streamed) ==
    IF hist.phase = "sent" THEN [hist EXCEPT !.phase = "done", !.streamed = streamed]
    ELSE HistOff

----------------------------------------------------------------------------
(* Initial state: the provider has just mounted *)

Init ==
    /\ state = InitialState
    /\ storage \in {NoDocument, CorruptDocument}
    /\ currentStreamingMessageId = NoMsg
    /\ abortControllerRef = NoMsg
    /\ requests = {}
    /\ pending = <<>>
    /\ nextChatId = 0
    /\ nextMsgId = 0
    /\ now = 0
    /\ hist = HistOff

\* React runs the mount effects and the initial-chat effect before it handles an event
Settled == ~state.isLoading /\ state.chats # <<>>

ChatIds(s) == {s.chats[i].id : i \in 1..Len(s.chats)}

----------------------------------------------------------------------------
(* ChatProvider effects and App *)

\* the load effect, followed by the save effect of the render it causes
LoadEffect ==
    /\ state.isLoading
    /\ LET chats == IF storage.kind = "json" THEN JSONparse(storage) ELSE <<>>
       IN  /\ state' = Dispatch(state, <<[type |-> "LOAD_CHATS", payload |-> chats]>>)
           /\ hist' = HistLoad(chats)
    /\ storage' = SaveEffect(state')
    /\ UNCHANGED <<currentStreamingMessageId, abortControllerRef, requests, pending,
                   nextChatId, nextMsgId, now>>

\* App unmounts the provider when the user signs out (or the page goes away) and
\* mounts a new one later: component state starts over, localStorage stays (the
\* save effect of the first render finds isLoading true)
Remount ==
    /\ ~state.isLoading
    /\ state' = InitialState
    /\ currentStreamingMessageId' = NoMsg
    /\ abortControllerRef' = NoMsg
    /\ requests' = {}
    /\ pending' = <<>>
    /\ hist' = HistOff
    /\ storage' = SaveEffect(state')
    /\ UNCHANGED <<nextChatId, nextMsgId, now>>

Tick ==
    /\ now < MaxClock
    /\ now' = now + 1
    /\ UNCHANGED <<state, storage, currentStreamingMessageId, abortControllerRef,
                   requests, pending, nextChatId, nextMsgId, hist>>

----------------------------------------------------------------------------
(* ChatInterface and ChatSidebar *)

\* "Create initial chat if none exists"
InitialChatEffect ==
    /\ ~state.isLoading /\ Len(state.chats) = 0
    /\ nextChatId < MaxChats
    /\ nextChatId' = nextChatId + 1
    /\ state' = Dispatch(state, createNewChat(nextChatId + 1))
    /\ storage' = SaveEffect(state')
    /\ hist' = HistCreate(TRUE)
    /\ UNCHANGED <<currentStreamingMessageId, abortControllerRef, requests, pending,
                   nextMsgId, now>>

handleNewChat ==
    /\ Settled
    /\ nextChatId < MaxChats
    /\ nextChatId' = nextChatId + 1
    /\ state' = Dispatch(state, createNewChat(nextChatId + 1))
    /\ storage' = SaveEffect(state')
    /\ hist' = HistCreate(FALSE)
    /\ UNCHANGED <<currentStreamingMessageId, abortControllerRef, requests, pending,
                   nextMsgId, now>>

handleSelectChat(chatId) ==
    /\ Settled
    /\ chatId \in ChatIds(state)
    /\ state' = Dispatch(state, selectChat(chatId))
    /\ hist' = HistOff
    /\ UNCHANGED <<storage, currentStreamingMessageId, abortControllerRef, requests,
                   pending, nextChatId, nextMsgId, now>>

handleDeleteChat(chatId) ==
    /\ Settled
    /\ chatId \in ChatIds(state)
    /\ state' = Dispatch(state, deleteChat(chatId))
    /\ storage' = SaveEffect(state')
    /\ hist' = HistOff
    /\ UNCHANGED <<currentStreamingMessageId, abortControllerRef, requests, pending,
                   nextChatId, nextMsgId, now>>

\* handleSendMessage from "Add user message" on: two addMessage calls, the view's
\* bookkeeping and the streamText call, all in one turn of the event loop
SendBody(closure, content, images) ==
    LET userId == nextMsgId + 1
        assistantMessageId == nextMsgId + 2
    IN  /\ state' = Dispatch(state,
                addMessage(closure, [content |-> content, role |-> "user",
                                     images |-> images, isStreaming |-> Undefined], userId)
                \o addMessage(closure, [content |-> <<>>, role |-> "assistant",
                                        images |-> Undefined, isStreaming |-> Some(TRUE)],
                              assistantMessageId)
                \o setStreaming(TRUE))
        /\ nextMsgId' = assistantMessageId
        /\ currentStreamingMessageId' = assistantMessageId
        /\ abortControllerRef' = assistantMessageId
        /\ requests' = requests \cup
                {[msgId |-> assistantMessageId, streamed |-> <<>>, aborted |-> FALSE]}
        /\ storage' = SaveEffect(state')

\* room for the ids of this send and of the sends still waiting in their timer
RoomForSend == nextMsgId + 2 * (Len(pending) + 1) <= MaxMsgs

\* handleSendMessage when state.currentChatId is set
SendNow(content, images) ==
    /\ state.currentChatId # NoChat
    /\ RoomForSend
    /\ SendBody(state, content, images)
    /\ UNCHANGED <<pending, nextChatId, now>>

\* handleSendMessage when state.currentChatId is null: createNewChat, then the
\* 100 ms timer; the rest runs in SendAfterWait with the state of this render
SendCreate(content, images) ==
    /\ state.currentChatId = NoChat
    /\ RoomForSend
    /\ nextChatId < MaxChats
    /\ nextChatId' = nextChatId + 1
    /\ state' = Dispatch(state, createNewChat(nextChatId + 1))
    /\ storage' = SaveEffect(state')
    /\ pending' = Append(pending, [closure |-> state, content |-> content, images |-> images])
    /\ UNCHANGED <<currentStreamingMessageId, abortControllerRef, requests, nextMsgId, now>>

SendAfterWait ==
    /\ pending # <<>>
    /\ nextMsgId + 2 <= MaxMsgs
    /\ SendBody(Head(pending).closure, Head(pending).content, Head(pending).images)
    /\ pending' = Tail(pending)
    /\ hist' = HistOff
    /\ UNCHANGED <<nextChatId, now>>

\* ChatInput.handleSubmit
handleSubmit(input) ==
    /\ Settled
    /\ (input.content # <<>> \/ Len(input.images) > 0)
    /\ ~state.isLoading /\ ~state.isStreaming
    /\ \/ SendNow(input.content, input.images) /\ hist' = HistSubmit(input.content)
       \/ SendCreate(input.content, input.images) /\ hist' = HistOff


CurrentMessages(s) == IF FindCurrent(s) = 0 THEN <<>> ELSE s.chats[FindCurrent(s)].messages

\* the last message whatever its role: its index, 0 when there is none
LastMessageIndex(messages) == Len(messages)

\* [...currentChat.messages].reverse().find(msg => msg.role === 'user'): its index, 0 when none
LastUserIndex(messages) ==
    IF \E k \in 1..Len(messages) : messages[k].role = "user"
    THEN CHOOSE k \in 1..Len(messages) :
            /\ messages[k].role = "user"
            /\ \A j \in (k+1)..Len(messages) : messages[j].role # "user"
    ELSE 0

\* ChatMessage shows the regenerate button on an assistant message that is not streaming
RegenerateShown(s) ==
    \E k \in 1..Len(CurrentMessages(s)) :
        /\ CurrentMessages(s)[k].role = "assistant"
        /\ CurrentMessages(s)[k].isStreaming # Some(TRUE)

handleRegenerate ==
    /\ Settled
    /\ RegenerateShown(state)
    /\ LET messages == CurrentMessages(state)
           last == LastUserIndex(messages)
       IN  IF Len(messages) < 2 \/ last = 0
           THEN UNCHANGED vars
           ELSE /\ SendNow(messages[last].content, messages[last].images)
                /\ hist' = HistOff

\* the stop button of ChatInput is shown while state.isStreaming
handleStopStreaming ==
    /\ Settled
    /\ state.isStreaming
    /\ IF abortControllerRef # NoMsg
       THEN /\ requests' = {IF r.msgId = abortControllerRef
                            THEN [r EXCEPT !.aborted = TRUE] ELSE r : r \in requests}
            /\ state' = Dispatch(state,
                    setStreaming(FALSE)
                    \o (IF currentStreamingMessageId # NoMsg
                        THEN updateMessage(currentStreamingMessageId, StoppedText)
                        ELSE <<>>))
            /\ currentStreamingMessageId' = NoMsg
            /\ storage' = IF currentStreamingMessageId # NoMsg THEN SaveEffect(state') ELSE storage
            /\ hist' = HistOff
            /\ UNCHANGED <<abortControllerRef, pending, nextChatId, nextMsgId, now>>
       ELSE UNCHANGED vars

----------------------------------------------------------------------------
(* blink.ai.streamText, as handleSendMessage sees it.  The AbortController is  *)
(* never handed to streamText, so aborting it does not end the call.          *)

\* the chunk callback
StreamChunk(r, chunk) ==
    /\ r \in requests
    /\ Len(r.streamed) < MaxChunks
    /\ LET streamedContent == r.streamed \o <<chunk>>
       IN  /\ requests' = (requests \ {r}) \cup {[r EXCEPT !.streamed = streamedContent]}
           /\ state' = Dispatch(state, updateMessage(r.msgId, streamedContent))
    /\ storage' = SaveEffect(state')
    /\ hist' = HistChunk
    /\ UNCHANGED <<currentStreamingMessageId, abortControllerRef, pending,
                   nextChatId, nextMsgId, now>>

\* the finally block
Finally(r) ==
    /\ currentStreamingMessageId' = NoMsg
    /\ abortControllerRef' = NoMsg
    /\ requests' = requests \ {r}
    /\ storage' = SaveEffect(state')
    /\ UNCHANGED <<pending, nextChatId, nextMsgId, now>>

\* streamText resolves: "Mark streaming as complete", then finally
StreamDone(r) ==
    /\ r \in requests
    /\ state' = Dispatch(state, updateMessage(r.msgId, r.streamed) \o setStreaming(FALSE))
    /\ hist' = HistDone(r.streamed)
    /\ Finally(r)

ErrorText(kind) == IF kind = "medical" THEN MedicalRefusalText ELSE GenericErrorText

\* streamText rejects: catch, then finally
StreamError(r, kind) ==
    /\ r \in requests
    /\ state' = Dispatch(state, updateMessage(r.msgId, ErrorText(kind)) \o setStreaming(FALSE))
    /\ hist' = HistOff
    /\ Finally(r)

----------------------------------------------------------------------------

Next ==
    \/ LoadEffect
    \/ Remount
    \/ Tick
    \/ InitialChatEffect
    \/ handleNewChat
    \/ \E chatId \in 1..MaxChats : handleSelectChat(chatId)
    \/ \E chatId \in 1..MaxChats : handleDeleteChat(chatId)
    \/ \E input \in SendInputs : handleSubmit(input)
    \/ SendAfterWait
    \/ handleRegenerate
    \/ handleStopStreaming
    \/ \E r \in requests, chunk \in Chunks : StreamChunk(r, chunk)
    \/ \E r \in requests : StreamDone(r)
    \/ \E r \in requests, kind \in ErrorKinds : StreamError(r, kind)

Spec == Init /\ [][Next]_vars

----------------------------------------------------------------------------
(* Helpers of the properties *)

\* the places <<conversation, message>> of the messages of s
Places(s) ==
    UNION {{<<i, k>> : k \in 1..Len(s.chats[i].messages)} : i \in 1..Len(s.chats)}

MessageAt(s, p) == s.chats[p[1]].messages[p[2]]

Marked(s) == {p \in Places(s) : MessageAt(s, p).isStreaming = Some(TRUE)}

MsgIds(chat) == [k \in 1..Len(chat.messages) |-> chat.messages[k].id]

IsPrefix(a, b) == Len(a) <= Len(b) /\ \A k \in 1..Len(a) : a[k] = b[k]

\* the conversations that exist: those in memory, and before the load those of the document
Conversations(s, item) ==
    IF s.isLoading
    THEN (IF item.kind = "json" THEN JSONparse(item) ELSE <<>>)
    ELSE s.chats

ConversationIds(s, item) ==
    {Conversations(s, item)[i].id : i \in 1..Len(Conversations(s, item))}

\* content of every message, by message id
ContentById(s) == {<<MessageAt(s, p).id, MessageAt(s, p).content>> : p \in Places(s)}

----------------------------------------------------------------------------
(* C1: starting from a loaded store with zero persisted conversations, one  *)
(* send of a message of at most six words whose stream runs to completion   *)
(* leaves exactly one conversation, titled with the message text, whose     *)
(* messages are exactly the user message and then the assistant message     *)
(* with the streamed content and no streaming marker.                       *)
C1_SendLeavesUserThenAssistant ==
    hist.phase = "done" =>
        /\ Len(state.chats) = 1
        /\ state.chats[1].title = hist.text
        /\ Len(state.chats[1].messages) = 2
        /\ state.chats[1].messages[1].role = "user"
        /\ state.chats[1].messages[1].content = hist.text
        /\ state.chats[1].messages[2].role = "assistant"
        /\ state.chats[1].messages[2].content = hist.streamed
        /\ state.chats[1].messages[2].isStreaming # Some(TRUE)

----------------------------------------------------------------------------
(* C2: messages are never reordered or deleted individually: in every step, *)
(* for every conversation that exists before and after it, the sequence of  *)
(* its message ids before the step is a prefix of the sequence after it;    *)
(* and a conversation id that appears in a step is a new one, so that a     *)
(* deleted conversation never comes back and the prefix relation carries    *)
(* over from steps to any earlier and later state.                          *)
C2_MessagesAppendOnly ==
    [][ /\ \A i \in 1..Len(Conversations(state, storage)) :
            \A j \in 1..Len(Conversations(state', storage')) :
                Conversations(state, storage)[i].id = Conversations(state', storage')[j].id
                    => IsPrefix(MsgIds(Conversations(state, storage)[i]),
                                MsgIds(Conversations(state', storage')[j]))
        /\ \A id \in ConversationIds(state', storage') \ ConversationIds(state, storage) :
                id > nextChatId
      ]_vars

\* a conversation that was created second holds three messages, one of them patched
C2_Witness ==
    \E i \in 1..Len(state.chats) :
        /\ Len(state.chats[i].messages) >= 3
        /\ state.chats[i].id > 1
        /\ \E k \in 1..Len(state.chats[i].messages) : state.chats[i].messages[k].content # <<>>
                /\ state.chats[i].messages[k].role = "assistant"

----------------------------------------------------------------------------
(* C3: in every reachable state the global streaming flag is true if and    *)
(* only if exactly one assistant message across all conversations has its   *)
(* streaming marker set.                                                    *)
C3_FlagIffOneMarker ==
    state.isStreaming <=> Cardinality(Marked(state)) = 1

----------------------------------------------------------------------------
(* C4: in every reachable state the global streaming flag is true exactly   *)
(* when some streamText call started by send or regenerate has neither      *)
(* returned nor thrown.                                                     *)
C4_FlagIffRequestInFlight ==
    state.isStreaming <=> requests # {}

----------------------------------------------------------------------------
(* C5: when the user cancels while a stream is in progress, the resulting   *)
(* state has the streaming assistant message's content equal to the stopped *)
(* text, its streaming marker cleared and the global streaming flag false.  *)
C5_CancelStopsMessage ==
    [][ (/\ handleStopStreaming
         /\ currentStreamingMessageId # NoMsg
         /\ \E r \in requests : r.msgId = currentStreamingMessageId
         /\ \E p \in Places(state') : MessageAt(state', p).id = currentStreamingMessageId)
        => /\ ~state'.isStreaming
           /\ \A p \in Places(state') :
                MessageAt(state', p).id = currentStreamingMessageId
                    => /\ MessageAt(state', p).content = StoppedText
                       /\ MessageAt(state', p).isStreaming # Some(TRUE)
      ]_vars

----------------------------------------------------------------------------
(* C6: after the user cancels a streaming request, the chunks that arrive   *)
(* later for that request, and its completion or error, change no message's *)
(* content.                                                                 *)
C6_LateChunksIgnored ==
    [][ \A r \in requests :
            (/\ r.aborted
             /\ \/ \E chunk \in Chunks : StreamChunk(r, chunk)
                \/ StreamDone(r)
                \/ \E kind \in ErrorKinds : StreamError(r, kind))
            => ContentById(state') = ContentById(state)
      ]_vars

----------------------------------------------------------------------------
(* C7: at most one AI request is in flight at any time, and the single      *)
(* cancellation handle always refers to the request that is in flight.      *)
C7_OneRequestInFlight ==
    /\ Cardinality(requests) <= 1
    /\ \A r \in requests : abortControllerRef = r.msgId
    /\ requests = {} => abortControllerRef = NoMsg

----------------------------------------------------------------------------
(* C8: in every reachable state after the initial load, the active id is    *)
(* null only when the conversation list is empty, and otherwise it is the   *)
(* id of a conversation present in the list.                                *)
C8_ActiveIffNonEmpty ==
    ~state.isLoading =>
        /\ state.currentChatId = NoChat <=> Len(state.chats) = 0
        /\ state.currentChatId # NoChat => state.currentChatId \in ChatIds(state)

----------------------------------------------------------------------------
(* C9: a user message appended as the first message of a conversation sets  *)
(* the conversation's title to the first six space-separated words of the   *)
(* content followed by "..." when the content has more than six words, and  *)
(* to the full content otherwise.                                           *)

Spaces(text) == {k \in 1..Len(text) : text[k] = SP}

\* the text before its n-th space
BeforeSpace(text, n) ==
    SubSeq(text, 1, (CHOOSE k \in Spaces(text) :
                        Cardinality({j \in Spaces(text) : j <= k}) = n) - 1)

ExpectedTitle(content) ==
    IF Cardinality(Spaces(content)) + 1 > TitleWords
    THEN BeforeSpace(content, TitleWords) \o Ellipsis
    ELSE content

\* the conversation had no message before the step (or did not exist)
WasEmpty(id) ==
    \A i \in 1..Len(state.chats) : state.chats[i].id = id => state.chats[i].messages = <<>>

C9_FirstUserMessageSetsTitle ==
    [][ \A j \in 1..Len(state'.chats) :
            (/\ WasEmpty(state'.chats[j].id)
             /\ state'.chats[j].messages # <<>>
             /\ state'.chats[j].messages[1].role = "user")
            => state'.chats[j].title = ExpectedTitle(state'.chats[j].messages[1].content)
      ]_vars

----------------------------------------------------------------------------
(* C10: creating N conversations in sequence from an empty store yields a   *)
(* list of exactly N conversations, most recently created first, each with  *)
(* an empty message list, the most recently created one active and first.   *)
C10_CreatesInSequence ==
    hist.creates >= 0 =>
        /\ Len(state.chats) = hist.creates
        /\ \A i \in 1..Len(state.chats) : state.chats[i].messages = <<>>
        /\ \A i \in 1..(Len(state.chats) - 1) :
                /\ state.chats[i].id > state.chats[i+1].id
                /\ state.chats[i].createdAt >= state.chats[i+1].createdAt
        /\ hist.creates > 0 => /\ state.currentChatId = state.chats[1].id
                               /\ state.chats[1].id = nextChatId

C10_Witness == hist.creates >= 2 /\ Len(state.chats) >= 2

----------------------------------------------------------------------------
(* DELETE_CHAT on stores of DeleteChats conversations.  The stores are those *)
(* the provider can hold once loaded: conversations newest first (CREATE_CHAT *)
(* prepends), each one new, answered, or with its answer still streaming;    *)
(* the active id one of the list or null; the document saved.                *)

DeleteChats == 3

\* a conversation as handleSendMessage and the chunk callback leave it
StoredChat(id, kind) ==
    CASE kind = "new" -> NewChat(id)
      [] kind = "streaming" ->
            [NewChat(id) EXCEPT !.title = generateChatTitle(TextSix),
                !.messages = <<[id |-> id, content |-> <<>>, role |-> "assistant",
                                timestamp |-> now, images |-> Undefined,
                                isStreaming |-> Some(TRUE)]>>]
      [] kind = "answered" ->
            [NewChat(id) EXCEPT !.title = generateChatTitle(TextSix),
                !.messages = <<[id |-> id, content |-> <<"x">>, role |-> "assistant",
                                timestamp |-> now, images |-> Undefined,
                                isStreaming |-> Some(FALSE)]>>]

ChatKinds == {"new", "streaming", "answered"}

\* conversations DeleteChats, ..., 1 in the order CREATE_CHAT leaves them
StoredChats(kinds) == [i \in 1..DeleteChats |-> StoredChat(DeleteChats + 1 - i, kinds[i])]

InitDelete ==
    /\ now = 0
    /\ \E kinds \in [1..DeleteChats -> ChatKinds], active \in 0..DeleteChats,
          streaming \in BOOLEAN :
            state = [chats |-> StoredChats(kinds), currentChatId |-> active,
                     isLoading |-> FALSE, isStreaming |-> streaming]
    /\ storage = JSONstringify(state.chats)
    /\ currentStreamingMessageId = NoMsg
    /\ abortControllerRef = NoMsg
    /\ requests = {}
    /\ pending = <<>>
    /\ nextChatId = DeleteChats
    /\ nextMsgId = DeleteChats
    /\ hist = HistOff

NextDelete == \E chatId \in 1..DeleteChats : handleDeleteChat(chatId)

SpecDelete == InitDelete /\ [][NextDelete]_vars

\* the place of the conversation with this id in the list of s
IndexOf(s, id) == CHOOSE i \in 1..Len(s.chats) : s.chats[i].id = id

----------------------------------------------------------------------------
(* C11: deleting the conversation with a given id removes exactly that      *)
(* conversation and keeps the others, unchanged and in their order; if the  *)
(* deleted conversation was the active one the active id becomes the id of  *)
(* the first remaining conversation, or null when none remains; otherwise   *)
(* the active id is unchanged.                                              *)
C11_DeleteRemovesExactlyOne ==
    [][ \A chatId \in ChatIds(state) :
            handleDeleteChat(chatId) =>
                /\ ChatIds(state') = ChatIds(state) \ {chatId}
                /\ Len(state'.chats) = Len(state.chats) - 1
                /\ \A j \in 1..Len(state'.chats) :
                        state'.chats[j] = state.chats[IndexOf(state, state'.chats[j].id)]
                /\ \A i, j \in 1..Len(state'.chats) :
                        i < j => IndexOf(state, state'.chats[i].id)
                                    < IndexOf(state, state'.chats[j].id)
                /\ state'.currentChatId =
                        IF state.currentChatId = chatId
                        THEN (IF Len(state'.chats) = 0 THEN NoChat ELSE state'.chats[1].id)
                        ELSE state.currentChatId
      ]_vars

\* the middle conversation of three was deleted; the newest is active
C11_Witness ==
    /\ Len(state.chats) = DeleteChats - 1
    /\ state.chats[1].id = DeleteChats
    /\ state.chats[Len(state.chats)].id = 1
    /\ state.currentChatId = DeleteChats

----------------------------------------------------------------------------
(* C12: patching a message's content always clears its streaming marker:    *)
(* after updateMessage(messageId, content), from the chunk callback, the    *)
(* completion, the catch block or the stop button, the message with that id *)
(* has the given content and no streaming marker, whichever conversation is *)
(* active when the patch is applied.                                        *)

\* the message with this id, wherever it is, has this content and no marker
Patched(s, messageId, content) ==
    \A p \in Places(s) :
        MessageAt(s, p).id = messageId
            => /\ MessageAt(s, p).content = content
               /\ MessageAt(s, p).isStreaming # Some(TRUE)

C12_PatchReachesMessage ==
    [][ /\ \A r \in requests :
            /\ \A chunk \in Chunks :
                    StreamChunk(r, chunk) => Patched(state', r.msgId, r.streamed \o <<chunk>>)
            /\ StreamDone(r) => Patched(state', r.msgId, r.streamed)
            /\ \A kind \in ErrorKinds :
                    StreamError(r, kind) => Patched(state', r.msgId, ErrorText(kind))
        /\ (handleStopStreaming /\ abortControllerRef # NoMsg
                /\ currentStreamingMessageId # NoMsg)
            => Patched(state', currentStreamingMessageId, StoppedText)
      ]_vars

----------------------------------------------------------------------------
(* C13: updateMessage is a no-op when no message with that id exists in the *)
(* active conversation: a chunk callback whose message is not in the active *)
(* conversation leaves the whole store state unchanged, every               *)
(* conversation's messages, title and last-updated timestamp, the active id *)
(* and both flags.                                                          *)

CurrentMsgIds(s) == {CurrentMessages(s)[k].id : k \in 1..Len(CurrentMessages(s))}

C13_PatchOfAbsentMessageIsNoOp ==
    [][ \A r \in requests, chunk \in Chunks :
            (StreamChunk(r, chunk) /\ r.msgId \notin CurrentMsgIds(state))
                => state' = state
      ]_vars

----------------------------------------------------------------------------
(* C14: round trip of the persistence: hydrating a fresh store from the     *)
(* document the save effect wrote yields a conversation list equal to the   *)
(* in-memory list at the time of the write: the same conversation ids in    *)
(* the same order, the same titles, and in each conversation the same       *)
(* message ids and contents in the same order.                              *)

\* what the load effect of a newly mounted provider makes of a stored item
Hydrate(item) ==
    Dispatch(InitialState,
             <<[type |-> "LOAD_CHATS",
                payload |-> IF item.kind = "json" THEN JSONparse(item) ELSE <<>>]>>)

\* ids, titles, message ids and contents of a conversation list, in order
Outline(chats) ==
    [i \in 1..Len(chats) |->
        [id |-> chats[i].id, title |-> chats[i].title,
         messages |-> [k \in 1..Len(chats[i].messages) |->
                        [id |-> chats[i].messages[k].id,
                         content |-> chats[i].messages[k].content]]]]

----------------------------------------------------------------------------
(* C15: when the persisted document cannot be parsed, or no document        *)
(* exists, hydration ends with an empty conversation list and the loading   *)
(* flag false; no error is raised (the load effect can always run while the *)
(* store is loading) and no other part of the store state changes.          *)
C15_HydrateWithoutDocument ==
    [][ /\ (LoadEffect /\ storage.kind \in {"none", "corrupt"})
            => /\ state'.chats = <<>>
               /\ ~state'.isLoading
               /\ state'.currentChatId = state.currentChatId
               /\ state'.isStreaming = state.isStreaming
        /\ state.isLoading => ENABLED LoadEffect
      ]_vars

\* the store right after a hydration that found no conversations
C15_Witness ==
    /\ ~state.isLoading
    /\ state.chats = <<>>
    /\ hist.phase = "fresh"
    /\ nextChatId = 0

----------------------------------------------------------------------------
(* C16: the persisted document is never written while the loading flag is   *)
(* true, and once the initial load has completed, after every change of the *)
(* conversation list the persisted document equals the serialization of the *)
(* current in-memory list.                                                  *)
C16_DocumentFollowsList ==
    [][ /\ state'.isLoading => storage' = storage
        /\ (~state'.isLoading /\ state'.chats # state.chats)
                => storage' = JSONstringify(state'.chats)
      ]_vars

\* a new provider is loading while the document holds a conversation with a stopped answer
C16_Witness ==
    /\ state.isLoading
    /\ storage.kind = "json"
    /\ \E p \in Places(Hydrate(storage)) : MessageAt(Hydrate(storage), p).content = StoppedText

----------------------------------------------------------------------------
(* C17: when the AI request fails (and was not cancelled), the placeholder  *)
(* created for that request ends with its content replaced by the fallback  *)
(* message of the catch block and its marker cleared, the global streaming  *)
(* flag becomes false, and no other message's content is changed.           *)
C17_FailureReplacesPlaceholder ==
    [][ \A r \in requests, kind \in ErrorKinds :
            (StreamError(r, kind) /\ ~r.aborted)
                => /\ Patched(state', r.msgId, ErrorText(kind))
                   /\ ~state'.isStreaming
                   /\ \A p \in Places(state) : \A q \in Places(state') :
                        (MessageAt(state, p).id = MessageAt(state', q).id
                            /\ MessageAt(state, p).id # r.msgId)
                        => MessageAt(state', q).content = MessageAt(state, p).content
      ]_vars

----------------------------------------------------------------------------
(* C18: every assistant placeholder appended with its marker set has the    *)
(* marker cleared once its request has completed or failed (a cancelled     *)
(* request ends in one of the two as well), whatever conversations the user *)
(* selected, created or deleted while it was in flight, as long as the      *)
(* placeholder's own conversation still exists; and once cleared, a marker  *)
(* is never set again.                                                      *)
C18_MarkerClearedWhenRequestEnds ==
    [][ /\ \A r \in requests :
            (StreamDone(r) \/ \E kind \in ErrorKinds : StreamError(r, kind))
                => \A q \in Places(state') :
                        MessageAt(state', q).id = r.msgId
                            => MessageAt(state', q).isStreaming # Some(TRUE)
        /\ \A p \in Places(state) : \A q \in Places(state') :
            (MessageAt(state, p).id = MessageAt(state', q).id
                /\ MessageAt(state, p).isStreaming # Some(TRUE))
            => MessageAt(state', q).isStreaming # Some(TRUE)
      ]_vars

----------------------------------------------------------------------------
(* C19: a message's content is mutable only while its streaming marker is   *)
(* set: in every step in which a message's content changes, that message's  *)
(* marker was set in the state before the step; and the content of a user   *)
(* message never changes.                                                   *)
C19_ContentChangesOnlyWhileMarked ==
    [][ \A p \in Places(state) : \A q \in Places(state') :
            (MessageAt(state, p).id = MessageAt(state', q).id
                /\ MessageAt(state, p).content # MessageAt(state', q).content)
            => /\ MessageAt(state, p).isStreaming = Some(TRUE)
               /\ MessageAt(state, p).role # "user"
      ]_vars

----------------------------------------------------------------------------
(* C20: in every reachable state each conversation's title is "New Chat" if *)
(* the conversation contains no user message, and otherwise is the title    *)
(* derived from the first user message in its list; and once derived, the   *)
(* title never changes.                                                     *)

UserIndexes(chat) == {k \in 1..Len(chat.messages) : chat.messages[k].role = "user"}

FirstUserMessage(chat) ==
    chat.messages[CHOOSE k \in UserIndexes(chat) : \A j \in UserIndexes(chat) : k <= j]

TitleFollowsMessages(chat) ==
    IF UserIndexes(chat) = {}
    THEN chat.title = NewChatTitle
    ELSE chat.title = ExpectedTitle(FirstUserMessage(chat).content)

C20_TitleFollowsFirstUserMessage ==
    [][ /\ \A j \in 1..Len(state'.chats) : TitleFollowsMessages(state'.chats[j])
        /\ \A i \in 1..Len(state.chats) : \A j \in 1..Len(state'.chats) :
            (state.chats[i].id = state'.chats[j].id /\ state.chats[i].title # NewChatTitle)
                => state'.chats[j].title = state.chats[i].title
      ]_vars

----------------------------------------------------------------------------
(* SELECT_CHAT on the stores of InitDelete, with the ids of conversations   *)
(* that are in the list, that were deleted, and that never existed.         *)

\* selectChat as the context hands it out: one SELECT_CHAT dispatch.  It returns
\* the same chats array, so the save effect does not run.
selectChatCalled(chatId) ==
    /\ ~state.isLoading
    /\ state' = Dispatch(state, selectChat(chatId))
    /\ hist' = HistOff
    /\ UNCHANGED <<storage, currentStreamingMessageId, abortControllerRef, requests,
                   pending, nextChatId, nextMsgId, now>>

NextSelect ==
    \/ \E chatId \in 1..(DeleteChats + 1) : selectChatCalled(chatId)
    \/ \E chatId \in 1..DeleteChats : handleDeleteChat(chatId)

SpecSelect == InitDelete /\ [][NextSelect]_vars

----------------------------------------------------------------------------
(* C21: selectChat(id) sets the active id to id whether or not a            *)
(* conversation with that id exists, and leaves the conversation list, the  *)
(* loading flag, the streaming flag and the persisted document unchanged.   *)
C21_SelectSetsOnlyActiveId ==
    [][ \A chatId \in 1..(DeleteChats + 1) :
            (selectChatCalled(chatId) \/ handleSelectChat(chatId))
                => /\ state'.currentChatId = chatId
                   /\ state'.chats = state.chats
                   /\ state'.isLoading = state.isLoading
                   /\ state'.isStreaming = state.isStreaming
                   /\ storage' = storage
      ]_vars

\* the active id is one that no conversation of the list has, and the document is the list's
C21_Witness ==
    /\ state.currentChatId # NoChat
    /\ state.currentChatId \notin ChatIds(state)
    /\ Len(state.chats) >= 2
    /\ storage = JSONstringify(state.chats)

----------------------------------------------------------------------------
(* C22: the regenerate action resubmits the most recent user message: when  *)
(* the active conversation has at least two messages and contains a user    *)
(* message, it appends to that conversation a new user message with the     *)
(* content and images of the latest user message, followed by a new         *)
(* streaming assistant placeholder, and starts a request for it (the other  *)
(* conversations keep their messages); when the active conversation has     *)
(* fewer than two messages or no user message it changes nothing.           *)

\* the latest user message of a conversation that has one
LatestUserMessage(chat) ==
    chat.messages[CHOOSE k \in UserIndexes(chat) : \A j \in UserIndexes(chat) : j <= k]

----------------------------------------------------------------------------
(* The program with the scheduling React gives its effects: the load effect *)
(* runs once the provider is mounted, and the initial-chat effect runs      *)
(* right after every commit that leaves the store loaded and empty; a run   *)
(* in which the provider goes away before the effect every single time is   *)
(* not one the program has.                                                 *)

SpecLive ==
    Init /\ [][Next]_vars /\ WF_vars(LoadEffect) /\ SF_vars(InitialChatEffect)

\* loaded, no conversation, and an id left for a new one
LoadedAndEmpty == ~state.isLoading /\ state.chats = <<>> /\ nextChatId < MaxChats

\* exactly one conversation, without messages, and it is the active one
OneEmptyActiveChat(s) ==
    /\ Len(s.chats) = 1
    /\ s.chats[1].messages = <<>>
    /\ s.chats[1].title = NewChatTitle
    /\ s.currentChatId = s.chats[1].id

----------------------------------------------------------------------------
(* C23: whenever the store has finished loading and the conversation list   *)
(* is empty (after an empty or corrupted load, or after the last            *)
(* conversation was deleted), the view eventually creates exactly one new   *)
(* empty conversation and makes it active; the list of a loaded store stops *)
(* being empty in no other way, so an empty list with no active             *)
(* conversation is only a transient state.                                  *)
C23_EmptyListGetsOneConversation ==
    /\ [][ (~state.isLoading /\ state.chats = <<>> /\ state'.chats # <<>>)
                => OneEmptyActiveChat(state') ]_vars
    /\ LoadedAndEmpty ~> OneEmptyActiveChat(state)

\* the load found no conversation and the initial-chat effect has created the first one
C23_Witness ==
    /\ OneEmptyActiveChat(state)
    /\ hist.phase = "fresh"
    /\ hist.creates = 1
    /\ storage = JSONstringify(state.chats)

====
